---- MODULE Spec2Model ----
(***************************************************************************)
(* pyrf96: the ctypes adapter rfcalc around the receiver-function solver   *)
(* librf96, the time-domain noise injector, the truncated-SVD covariance   *)
(* inverses, the waveform misfit of the demo script and the model-format   *)
(* (staircase) conversions.                                                *)
(*                                                                         *)
(* Arrays produced by the native solver and by numpy's random generator    *)
(* are opaque: each is the record of the routine that wrote it and of      *)
(* everything that routine was handed, so two arrays are equal exactly     *)
(* when they were produced from the same inputs.                           *)
(***************************************************************************)
EXTENDS Integers, Sequences, FiniteSets, TLC

VARIABLES
    pc,              \* position of the current rfcalc call
    args,            \* arguments of the current rfcalc call
    default_qmodels, \* the default-argument object of rfcalc (line 35)
    npt,             \* layer count, np.shape(model)[0]
    qa_f, qb_f,      \* marshalled attenuation arrays
    time_f, wdata_f, \* output buffers / returned arrays
    libcalls,        \* calls made into librf96 by the current rfcalc call
    injcalls,        \* calls of add_time_domain_noise by the current rfcalc call
    k,               \* kernel closure bound inside add_time_domain_noise
    K,               \* covariance matrix inside add_time_domain_noise
    Kevals,          \* kernel evaluations done by the covariance loop
    draws,           \* samples drawn by the current call
    result,          \* what the current rfcalc call returned or raised
    rng,             \* state of numpy's global generator (np.random)
    kept,            \* results the calling script holds on to
    s,               \* singular values np.linalg.svd returned, in its order
    inv_full,        \* outcome of InvDataCov on s
    inv_sub,         \* outcome of InvDataCovSub on s
    RFo, RFp,        \* observed and predicted waveform of the demo
    Cdinv,           \* covariance inverse handed to the misfit
    mref,            \* the misfit the demo computed
    velmodT,         \* a model in layer-thickness format (mtype 1)
    velmodD,         \* a model in interface-depth format (mtype 2)
    dmax,            \* dmax handed to l2mod and d2mod
    l2out, d2out,    \* what l2mod(velmodT) and d2mod(velmodD) returned
    kname,           \* the noise kernel being evaluated
    kx, kxp,         \* two points of the time axis
    ks1, krho,       \* amp_sigma and corr_time
    kperiod,         \* period of the periodic kernel
    kval             \* the covariance entries evaluated at these points

rfVars == <<pc, args, default_qmodels, npt, qa_f, qb_f, time_f, wdata_f,
            libcalls, injcalls, k, K, Kevals, draws, result, rng, kept>>

covVars == <<s, inv_full, inv_sub>>
misfitVars == <<RFo, RFp, Cdinv, mref>>
modVars == <<velmodT, velmodD, dmax, l2out, d2out>>

kernVars == <<kname, kx, kxp, ks1, krho, kperiod, kval>>

vars == <<rfVars, covVars, misfitVars, modVars, kernVars>>

(***************************************************************************)
(* Bounds of the model.                                                    *)
(***************************************************************************)
MaxLayers == 2      \* longest model; attenuation arrays run to MaxLayers+1
NDatar == 2         \* ndatar, the waveform length, of every call
RngPeriod == 3      \* number of distinct states of the global generator
MaxKept == 1        \* results the calling script keeps for comparison
MaxData == 3        \* largest ndata of the covariance inverses
MaxSVal == 3        \* largest singular value, in units of half the threshold
MaxWave == 2        \* longest waveform handed to the misfit
MaxX == 2           \* largest point of the time axis handed to a kernel
MaxParam == 2       \* largest amp_sigma, corr_time and period
MaxColumn == 3      \* most layers of a model handed to l2mod and d2mod

(***************************************************************************)
(* Values.                                                                 *)
(***************************************************************************)
None == [tag |-> "None"]
Scalar(q) == [scalar |-> TRUE, v |-> q]
Array(a) == [scalar |-> FALSE, v |-> a]
isscalar(e) == e.scalar

SeqsUpTo(S, n) == UNION {[1..m -> S] : m \in 1..n}
Models == SeqsUpTo({1}, MaxLayers) \cup {<<2>>}
MTypes == {1, 2}
SnVals == {0, 1}
Seeds == {1, 61254557}
Kernels == {"sqExp", "matern0", "matern1", "matern2", "periodic"}
NoiseSpecs ==
    {None}
    \cup {[kernel |-> kn, amp_sigma |-> 1, corr_time |-> 1] :
              kn \in Kernels \cup {"bogus"}}
    \cup {[kernel |-> "periodic", amp_sigma |-> 1, corr_time |-> 1, period |-> 1]}
Ramp(base, n) == [i \in 1..n |-> base + i]
QaEntries == {Scalar(1450)} \cup {Array(Ramp(100, n)) : n \in 1..(MaxLayers + 1)}
QbEntries == {Scalar(600)} \cup {Array(Ramp(50, n)) : n \in 1..(MaxLayers + 1)}
Omitted == <<>>
QModels == {Omitted} \cup {<<a, b>> : a \in QaEntries, b \in QbEntries}
Garbage == {0, 999}

Args ==
    [model : Models, mtype : MTypes, sn : SnVals, seed : Seeds,
     noise : NoiseSpecs, qmodels : QModels]

\* the calls of the test script and of the demo: default attenuation, the
\* noisy or the noiseless path, with or without time-domain noise
SeqArgs ==
    [model : {<<1>>, <<2>>}, mtype : {2}, sn : SnVals, seed : Seeds,
     noise : {None, [kernel |-> "sqExp", amp_sigma |-> 1, corr_time |-> 1]},
     qmodels : {Omitted}]

NoArgs == [model |-> <<>>]
NoResult == [tag |-> "none"]
Return(v) == [tag |-> "return", value |-> v]
Raise(e) == [tag |-> "raise", exc |-> e]

zeros(n) == [len |-> n, by |-> [routine |-> "zeros"]]

(***************************************************************************)
(* rfcalc: marshalling of the arguments.                                   *)
(***************************************************************************)
\* the list rfcalc reads its attenuation entries from
qmodels_of(a, dflt) == IF a.qmodels = Omitted THEN dflt ELSE a.qmodels

resolve_q_first(entry, n) ==
    [i \in 1..n |-> IF isscalar(entry) THEN entry.v * 1 ELSE entry.v[1]]

\* a scalar entry is broadcast over the layers, an array is taken as it is
resolve_q(entry, n) ==
    IF isscalar(entry) THEN [i \in 1..n |-> entry.v * 1] ELSE entry.v

rfcalc_marshal(A) ==
    /\ pc = "idle"
    /\ UNCHANGED <<covVars, misfitVars, modVars, kernVars>>
    /\ \E a \in A :
          LET qm == qmodels_of(a, default_qmodels)
              n == Len(a.model)
          IN  /\ args' = a
              /\ npt' = n
              /\ qa_f' = resolve_q(qm[1], n)
              /\ qb_f' = resolve_q(qm[2], n)
    /\ time_f' = zeros(NDatar)
    /\ wdata_f' = zeros(NDatar)
    /\ libcalls' = <<>>
    /\ injcalls' = <<>>
    /\ k' = "unbound"
    /\ K' = zeros(0)
    /\ Kevals' = 0
    /\ draws' = 0
    /\ result' = NoResult
    /\ pc' = "marshalled"
    /\ UNCHANGED <<default_qmodels, rng, kept>>

(***************************************************************************)
(* rfcalc: the call into librf96.                                          *)
(***************************************************************************)
solver_routine_always_nonoise(sn) == "rfcalc_nonoise"

solver_routine(sn) == IF sn = 0 THEN "rfcalc_nonoise" ELSE "rfcalc_noise"

solver_argv_ambient_seed(routine, a, n, qa, qb) ==
    IF routine = "rfcalc_nonoise"
    THEN [routine |-> routine, model |-> a.model, mtype |-> a.mtype,
          ndatar |-> NDatar, npt |-> n, qa |-> qa, qb |-> qb]
    ELSE [routine |-> routine, model |-> a.model, mtype |-> a.mtype,
          sn |-> a.sn, ndatar |-> NDatar, seed |-> rng, npt |-> n,
          qa |-> qa, qb |-> qb]

\* the argument list handed to the routine; the arrays go by address
solver_argv(routine, a, n, qa, qb) ==
    IF routine = "rfcalc_nonoise"
    THEN [routine |-> routine, model |-> a.model, mtype |-> a.mtype,
          ndatar |-> NDatar, npt |-> n, qa |-> qa, qb |-> qb]
    ELSE [routine |-> routine, model |-> a.model, mtype |-> a.mtype,
          sn |-> a.sn, ndatar |-> NDatar, seed |-> a.seed, npt |-> n,
          qa |-> qa, qb |-> qb]

\* the npt elements the routine reads at an array's address: past the end
\* of a shorter array it reads whatever the memory holds
seen(q, n, g) == [i \in 1..n |-> IF i <= Len(q) THEN q[i] ELSE g]

\* the native routine: it fills both output arrays, as a function of what it
\* was handed (the noisy routine seeds its generator with the seed it is given)
librf96(argv, ga, gb) ==
    LET read == [argv EXCEPT !.qa = seen(argv.qa, argv.npt, ga),
                             !.qb = seen(argv.qb, argv.npt, gb)]
    IN  [time |-> [len |-> argv.ndatar, by |-> [routine |-> "time"]],
         wdata |-> [len |-> argv.ndatar, by |-> read]]

rfcalc_solver ==
    /\ pc = "marshalled"
    /\ UNCHANGED <<covVars, misfitVars, modVars, kernVars>>
    /\ LET argv == solver_argv(solver_routine(args.sn), args, npt, qa_f, qb_f)
       IN  \E ga \in (IF Len(qa_f) < npt THEN Garbage ELSE {0}),
              gb \in (IF Len(qb_f) < npt THEN Garbage ELSE {0}) :
               /\ libcalls' = Append(libcalls, argv)
               /\ time_f' = librf96(argv, ga, gb).time
               /\ wdata_f' = librf96(argv, ga, gb).wdata
    /\ pc' = "solved"
    /\ UNCHANGED <<args, default_qmodels, npt, qa_f, qb_f, injcalls, k, K,
                   Kevals, draws, result, rng, kept>>

rfcalc_return_ignoring_noise ==
    /\ pc = "solved"
    /\ UNCHANGED <<covVars, misfitVars, modVars, kernVars>>
    /\ result' = Return(<<time_f, wdata_f>>)
    /\ pc' = "returned"
    /\ UNCHANGED <<args, default_qmodels, npt, qa_f, qb_f, time_f, wdata_f,
                   libcalls, injcalls, k, K, Kevals, draws, rng, kept>>

\* no noise dictionary: the pair (time, waveform)
rfcalc_return ==
    /\ pc = "solved"
    /\ UNCHANGED <<covVars, misfitVars, modVars, kernVars>>
    /\ args.noise = None
    /\ result' = Return(<<time_f, wdata_f>>)
    /\ pc' = "returned"
    /\ UNCHANGED <<args, default_qmodels, npt, qa_f, qb_f, time_f, wdata_f,
                   libcalls, injcalls, k, K, Kevals, draws, rng, kept>>

(***************************************************************************)
(* add_time_domain_noise, called by rfcalc on the solver's waveform.       *)
(***************************************************************************)
select_kernel_defaulting(noise) ==
    IF noise.kernel \in Kernels \ {"periodic"} THEN noise.kernel ELSE "sqExp"

\* the if/elif chain: k stays unbound when no branch matches
select_kernel(noise) ==
    IF noise.kernel \in Kernels THEN noise.kernel ELSE "unbound"

\* one call k(x, xp): the unbound name and the periodic closure (which calls
\* periodic without its period argument) raise
kernel_eval(kn) ==
    CASE kn = "unbound" -> "UnboundLocalError"
      [] kn = "periodic" -> "TypeError"
      [] OTHER -> "ok"

add_time_domain_noise ==
    /\ pc = "solved"
    /\ UNCHANGED <<covVars, misfitVars, modVars, kernVars>>
    /\ args.noise # None
    /\ injcalls' = Append(injcalls,
                          [w |-> wdata_f, t |-> time_f, noise |-> args.noise])
    /\ k' = select_kernel(args.noise)
    /\ K' = zeros(wdata_f.len)
    /\ pc' = "noise_kernel"
    /\ UNCHANGED <<args, default_qmodels, npt, qa_f, qb_f, time_f, wdata_f,
                   libcalls, Kevals, draws, result, rng, kept>>

\* the double loop filling K; the first call of k raises when k cannot be
\* called, and the exception leaves rfcalc
noise_covariance ==
    /\ pc = "noise_kernel"
    /\ UNCHANGED <<covVars, misfitVars, modVars, kernVars>>
    /\ LET nt == wdata_f.len
       IN  IF nt = 0 \/ kernel_eval(k) = "ok"
           THEN /\ Kevals' = nt * nt
                /\ K' = [len |-> nt,
                         by |-> [routine |-> k,
                                 amp_sigma |-> args.noise.amp_sigma,
                                 corr_time |-> args.noise.corr_time,
                                 t |-> time_f]]
                /\ pc' = "noise_cov"
                /\ UNCHANGED result
           ELSE /\ Kevals' = 0
                /\ result' = Raise(kernel_eval(k))
                /\ pc' = "returned"
                /\ UNCHANGED K
    /\ UNCHANGED <<args, default_qmodels, npt, qa_f, qb_f, time_f, wdata_f,
                   libcalls, injcalls, k, draws, rng, kept>>

\* np.random.multivariate_normal: the sample is a function of the global
\* generator's state and of the covariance
multivariate_normal(state, cov) == [state |-> state, cov |-> cov]

\* w += sample, in place, and the three-tuple leaves rfcalc
noise_draw ==
    /\ pc = "noise_cov"
    /\ UNCHANGED <<covVars, misfitVars, modVars, kernVars>>
    /\ wdata_f' = [len |-> wdata_f.len,
                   by |-> [routine |-> "+=", w |-> wdata_f,
                           sample |-> multivariate_normal(rng, K)]]
    /\ rng' = (rng + 1) % RngPeriod
    /\ draws' = draws + 1
    /\ result' = Return(<<time_f, wdata_f', K>>)
    /\ pc' = "returned"
    /\ UNCHANGED <<args, default_qmodels, npt, qa_f, qb_f, time_f, libcalls,
                   injcalls, k, K, Kevals, kept>>

(***************************************************************************)
(* The calling script: it drops a result or holds on to it.                *)
(***************************************************************************)
\* the locals of a finished call are gone once the script moves on
script_next ==
    /\ pc = "returned"
    /\ UNCHANGED <<covVars, misfitVars, modVars, kernVars>>
    /\ pc' = "idle"
    /\ args' = NoArgs
    /\ npt' = 0
    /\ qa_f' = <<>>
    /\ qb_f' = <<>>
    /\ time_f' = zeros(0)
    /\ wdata_f' = zeros(0)
    /\ libcalls' = <<>>
    /\ injcalls' = <<>>
    /\ k' = "unbound"
    /\ K' = zeros(0)
    /\ Kevals' = 0
    /\ draws' = 0
    /\ result' = NoResult
    /\ UNCHANGED <<default_qmodels, rng, kept>>

script_keep ==
    /\ pc = "returned"
    /\ UNCHANGED <<covVars, misfitVars, modVars, kernVars>>
    /\ Len(kept) < MaxKept
    /\ kept' = Append(kept, [args |-> args, libcalls |-> libcalls,
                             result |-> result])
    /\ UNCHANGED <<pc, args, default_qmodels, npt, qa_f, qb_f, time_f, wdata_f,
                   libcalls, injcalls, k, K, Kevals, draws, result, rng>>

(***************************************************************************)
(* InvDataCov and InvDataCovSub: the truncation of the singular values.    *)
(* Singular values are counted in units of 5e-7, so the cut-off 0.000001   *)
(* is 2; np.linalg.svd returns them in descending order.                   *)
(***************************************************************************)
Threshold == 2

Descending(q) == \A i \in 1..(Len(q) - 1) : q[i] >= q[i + 1]
Spectra == {q \in SeqsUpTo(0..MaxSVal, MaxData) : Descending(q)}

Min(S) == CHOOSE x \in S : \A y \in S : x <= y
Max(S) == CHOOSE x \in S : \A y \in S : x >= y

\* [n for n, a in enumerate(s) if a < 0.000001], positions counted from 0
below(q) == {n \in 0..(Len(q) - 1) : q[n + 1] < Threshold}
\* [n for n, a in enumerate(s) if a > 0.000001]
above(q) == {n \in 0..(Len(q) - 1) : q[n + 1] > Threshold}

pmax_full_le(q) ==
    IF {n \in 0..(Len(q) - 1) : q[n + 1] <= Threshold} = {}
    THEN Raise("IndexError")
    ELSE Return(Min({n \in 0..(Len(q) - 1) : q[n + 1] <= Threshold}))

\* [...][0]: the first such position, IndexError on the empty list
pmax_full(q) ==
    IF below(q) = {} THEN Raise("IndexError") ELSE Return(Min(below(q)))

pmax_sub_first(q) ==
    IF above(q) = {} THEN Raise("IndexError") ELSE Return(Min(above(q)) + 1)

\* [...][-1] + 1: one past the last such position
pmax_sub(q) ==
    IF above(q) = {} THEN Raise("IndexError") ELSE Return(Max(above(q)) + 1)

\* s[:pmax] enters Sinv, and with it Cdinv
truncate(q, p) ==
    IF p.tag = "raise" THEN p
    ELSE [tag |-> "return", pmax |-> p.value, retained |-> SubSeq(q, 1, p.value)]

InvDataCov ==
    /\ inv_full = NoResult
    /\ inv_full' = truncate(s, pmax_full(s))
    /\ UNCHANGED <<rfVars, s, inv_sub, misfitVars, modVars, kernVars>>

InvDataCovSub ==
    /\ inv_sub = NoResult
    /\ inv_sub' = truncate(s, pmax_sub(s))
    /\ UNCHANGED <<rfVars, s, inv_full, misfitVars, modVars, kernVars>>

\* another covariance matrix is decomposed
cov_next ==
    /\ inv_full # NoResult
    /\ inv_sub # NoResult
    /\ \E q \in Spectra : s' = q
    /\ inv_full' = NoResult
    /\ inv_sub' = NoResult
    /\ UNCHANGED <<rfVars, misfitVars, modVars, kernVars>>

(***************************************************************************)
(* The waveform misfit of the demo script.                                 *)
(***************************************************************************)
RECURSIVE sum(_, _)
sum(f, n) == IF n = 0 THEN 0 ELSE f[n] + sum(f, n - 1)

dot(u, v) == sum([i \in 1..Len(u) |-> u[i] * v[i]], Len(u))
matvec(M, v) == [i \in 1..Len(M) |-> dot(M[i], v)]

residual_sum(observed, predicted) ==
    [i \in 1..Len(observed) |-> observed[i] + predicted[i]]

\* res = RFo - RFp
residual(observed, predicted) ==
    [i \in 1..Len(observed) |-> observed[i] - predicted[i]]

\* np.dot(res, np.transpose(np.dot(Cdinv, res))) / 2.0, as a fraction
misfit(observed, predicted, C) ==
    LET res == residual(observed, predicted)
    IN  [num |-> dot(res, matvec(C, res)), den |-> 2]

demo_misfit ==
    /\ mref = NoResult
    /\ mref' = misfit(RFo, RFp, Cdinv)
    /\ UNCHANGED <<rfVars, covVars, RFo, RFp, Cdinv, modVars, kernVars>>

(***************************************************************************)
(* l2mod and d2mod: a model as the staircase plotted against depth.        *)
(***************************************************************************)
Thicknesses == {0, 1, 2}
Velocities == {3, 4}
HalfSpace == {0, 2, 7}
DMaxs == {1, 60}
Layers == {<<a, v, 2>> : a \in Thicknesses, v \in Velocities}
ThickModels == SeqsUpTo(Layers, MaxColumn)

\* model.T[c], columns counted from 0
column(model, c) == [i \in 1..Len(model) |-> model[i][c + 1]]
cumsum(q) == [i \in 1..Len(q) |-> sum(q, i)]
butlast(q) == SubSeq(q, 1, Len(q) - 1)
nozeros(n) == [j \in 0..(n - 1) |-> 0]

\* arr[start::2] = vals, on an array indexed from 0
stride_set(arr, start, vals) ==
    [j \in DOMAIN arr |->
        IF j >= start /\ (j - start) % 2 = 0 /\ (j - start) \div 2 < Len(vals)
        THEN vals[((j - start) \div 2) + 1]
        ELSE arr[j]]

\* the slice assignments shared by l2mod and d2mod, then py[-1] = dmax
staircase_unpinned(depths, vel, dm) ==
    LET n == 2 * Len(vel)
        py == stride_set(stride_set(nozeros(n), 1, depths), 2, butlast(depths))
        px == stride_set(stride_set(nozeros(n), 0, vel), 1, vel)
    IN  [px |-> px, py |-> py]

staircase(depths, vel, dm) ==
    LET n == 2 * Len(vel)
        py == stride_set(stride_set(nozeros(n), 1, depths), 2, butlast(depths))
        px == stride_set(stride_set(nozeros(n), 0, vel), 1, vel)
    IN  [px |-> px, py |-> [py EXCEPT ![n - 1] = dm]]

l2mod_nocumsum(model, dm) ==
    staircase(column(model, 0), column(model, 1), dm)

l2mod(model, dm) == staircase(cumsum(column(model, 0)), column(model, 1), dm)

d2mod(model, dm) == staircase(column(model, 0), column(model, 1), dm)

\* the interface-depth models of the column a thickness model describes:
\* same velocities, depths the running sum of the thicknesses above the
\* half-space, any value in the half-space's first column
SameColumn(T) ==
    {[i \in 1..Len(T) |->
         <<IF i < Len(T) THEN cumsum(column(T, 0))[i] ELSE h, T[i][2], T[i][3]>>] :
     h \in HalfSpace}

l2mod_call ==
    /\ l2out = NoResult
    /\ l2out' = l2mod(velmodT, dmax)
    /\ UNCHANGED <<rfVars, covVars, misfitVars, kernVars, velmodT, velmodD, dmax, d2out>>

d2mod_call ==
    /\ d2out = NoResult
    /\ d2out' = d2mod(velmodD, dmax)
    /\ UNCHANGED <<rfVars, covVars, misfitVars, kernVars, velmodT, velmodD, dmax, l2out>>

(***************************************************************************)
(* The noise kernels.  A value is amp * shape, amp = s1**2 an integer and  *)
(* shape the product of a polynomial factor and an exponential; exp(0),    *)
(* sin(0) = 0 and a polynomial with no term besides 1 are exact in         *)
(* floating point, so those shapes are the number 1 (Unit).  Every other   *)
(* shape is kept as the arguments it was computed from.  corr_time and     *)
(* period are non-zero.                                                    *)
(***************************************************************************)
Unit == [one |-> TRUE]
Abs(d) == IF d < 0 THEN -d ELSE d

\* np.exp(-root * num / den), root standing for 1, sqrt(3) or sqrt(5)
Exp(root, num, den) ==
    IF num = 0 THEN Unit ELSE [root |-> root, num |-> -num, den |-> den]

\* 1. + root * num / den + 5 * sq / (3 * den**2)
Poly(root, num, den, sq) ==
    IF num = 0 /\ sq = 0 THEN Unit
    ELSE [root |-> root, num |-> num, den |-> den, sq |-> 5 * sq,
          sqden |-> 3 * den * den]

Times(p, e) == IF p = Unit /\ e = Unit THEN Unit ELSE [poly |-> p, exp |-> e]

Value(amp, shape) == [amp |-> amp, shape |-> shape]

sqExp(x, xp, s1, rho) ==
    Value(s1 * s1, Times(Unit, Exp(1, (x - xp) * (x - xp), 2 * rho * rho)))

matern0_signed(x, xp, s1, rho) ==
    Value(s1 * s1, Times(Unit, Exp(1, x - xp, rho)))

matern0(x, xp, s1, rho) ==
    Value(s1 * s1, Times(Unit, Exp(1, Abs(x - xp), rho)))

matern1(x, xp, s1, rho) ==
    Value(s1 * s1, Times(Poly(3, Abs(x - xp), rho, 0), Exp(3, Abs(x - xp), rho)))

matern2(x, xp, s1, rho) ==
    Value(s1 * s1, Times(Poly(5, Abs(x - xp), rho, (x - xp) * (x - xp)),
                         Exp(5, Abs(x - xp), rho)))

\* np.sin(abs(x - xp) * np.pi / period)**2
SinSq(d, period) == IF d = 0 THEN 0 ELSE [sin |-> d, period |-> period]

periodic(x, xp, s1, rho, period) ==
    Value(s1 * s1,
          Times(Unit,
                IF Abs(x - xp) = 0 THEN Unit
                ELSE [root |-> 1, num |-> SinSq(Abs(x - xp), period),
                      twice |-> TRUE, den |-> rho * rho]))

kernel(name, x, xp, s1, rho, period) ==
    CASE name = "sqExp" -> sqExp(x, xp, s1, rho)
      [] name = "matern0" -> matern0(x, xp, s1, rho)
      [] name = "matern1" -> matern1(x, xp, s1, rho)
      [] name = "matern2" -> matern2(x, xp, s1, rho)
      [] name = "periodic" -> periodic(x, xp, s1, rho, period)

\* the entries K[i,j], K[j,i] and K[i,i] of a covariance matrix
kernel_entries ==
    /\ kval = NoResult
    /\ kval' = [ij |-> kernel(kname, kx, kxp, ks1, krho, kperiod),
                ji |-> kernel(kname, kxp, kx, ks1, krho, kperiod),
                ii |-> kernel(kname, kx, kx, ks1, krho, kperiod)]
    /\ UNCHANGED <<rfVars, covVars, misfitVars, modVars, kname, kx, kxp, ks1,
                   krho, kperiod>>

(***************************************************************************)
(* Initial states and specifications.                                      *)
(***************************************************************************)
ParkCov == s = <<1>> /\ inv_full = NoResult /\ inv_sub = NoResult
ParkMisfit == RFo = <<0>> /\ RFp = <<0>> /\ Cdinv = <<<<1>>>> /\ mref = NoResult
ParkMod ==
    /\ velmodT = <<<<0, 3, 2>>>>
    /\ velmodD = <<<<0, 3, 2>>>>
    /\ dmax = 60
    /\ l2out = NoResult
    /\ d2out = NoResult

ParkKern ==
    /\ kname = "sqExp"
    /\ kx = 0
    /\ kxp = 0
    /\ ks1 = 1
    /\ krho = 1
    /\ kperiod = 1
    /\ kval = NoResult

InitKern ==
    /\ kname \in Kernels
    /\ kx \in 0..MaxX
    /\ kxp \in 0..MaxX
    /\ ks1 \in (-1)..MaxParam
    /\ krho \in 1..MaxParam
    /\ kperiod \in 1..MaxParam
    /\ kval = NoResult

InitCov == s \in Spectra /\ inv_full = NoResult /\ inv_sub = NoResult

InitMisfit ==
    /\ \E n \in 1..MaxWave :
          /\ RFo \in [1..n -> {0, 1}]
          /\ RFp \in [1..n -> {0, 1}]
          /\ Cdinv \in [1..n -> [1..n -> {-1, 1}]]
    /\ mref = NoResult

InitMod ==
    /\ velmodT \in ThickModels
    /\ velmodD \in SameColumn(velmodT)
    /\ dmax \in DMaxs
    /\ l2out = NoResult
    /\ d2out = NoResult

InitRf ==
    /\ pc = "idle"
    /\ args = NoArgs
    /\ default_qmodels = <<Scalar(1450), Scalar(600)>>
    /\ npt = 0
    /\ qa_f = <<>>
    /\ qb_f = <<>>
    /\ time_f = zeros(0)
    /\ wdata_f = zeros(0)
    /\ libcalls = <<>>
    /\ injcalls = <<>>
    /\ k = "unbound"
    /\ K = zeros(0)
    /\ Kevals = 0
    /\ draws = 0
    /\ result = NoResult
    /\ rng \in 0..(RngPeriod - 1)
    /\ kept = <<>>

Init == InitRf /\ ParkCov /\ ParkMisfit /\ ParkMod /\ ParkKern

Next ==
    \/ rfcalc_marshal(Args)
    \/ rfcalc_solver
    \/ rfcalc_return
    \/ add_time_domain_noise
    \/ noise_covariance
    \/ noise_draw
    \/ script_next

Spec == Init /\ [][Next]_vars

NextSeq ==
    \/ rfcalc_marshal(SeqArgs)
    \/ rfcalc_solver
    \/ rfcalc_return
    \/ add_time_domain_noise
    \/ noise_covariance
    \/ noise_draw
    \/ script_next
    \/ script_keep

SpecSeq == Init /\ [][NextSeq]_vars

ParkRf == InitRf /\ rng = 0

InitCovSpec == ParkRf /\ InitCov /\ ParkMisfit /\ ParkMod /\ ParkKern
NextCov == InvDataCov \/ InvDataCovSub \/ cov_next
SpecCov == InitCovSpec /\ [][NextCov]_vars

InitMisfitSpec == ParkRf /\ ParkCov /\ InitMisfit /\ ParkMod /\ ParkKern
NextMisfit == demo_misfit
SpecMisfit == InitMisfitSpec /\ [][NextMisfit]_vars

InitModSpec == ParkRf /\ ParkCov /\ ParkMisfit /\ InitMod /\ ParkKern
NextMod == l2mod_call \/ d2mod_call
SpecMod == InitModSpec /\ [][NextMod]_vars

\* one array read as a thickness model by l2mod and as a depth model by d2mod
InitStair ==
    /\ velmodT \in ThickModels
    /\ velmodD = velmodT
    /\ dmax \in DMaxs
    /\ l2out = NoResult
    /\ d2out = NoResult

InitStairSpec == ParkRf /\ ParkCov /\ ParkMisfit /\ InitStair /\ ParkKern
SpecStair == InitStairSpec /\ [][NextMod]_vars

InitKernSpec == ParkRf /\ ParkCov /\ ParkMisfit /\ ParkMod /\ InitKern
NextKern == kernel_entries
SpecKern == InitKernSpec /\ [][NextKern]_vars

(***************************************************************************)
(* Properties of rfcalc (Spec).                                            *)
(***************************************************************************)
AfterSolver == pc \in {"solved", "noise_kernel", "noise_cov", "returned"}
InInjector == pc \in {"noise_kernel", "noise_cov"}

\* what the solver can have written for the call it was handed
SolverOutputs ==
    {librf96(libcalls[1], ga, gb) : ga \in Garbage \cup {0}, gb \in Garbage \cup {0}}

\* C1: every rfcalc call invokes exactly one routine of librf96, once:
\* rfcalc_nonoise without a seed argument when sn = 0, rfcalc_noise with the
\* caller's seed when sn # 0; the other routine is not invoked.
C1_ExactlyOneSolverCall ==
    /\ pc \in {"idle", "marshalled"} => libcalls = <<>>
    /\ AfterSolver =>
          /\ Len(libcalls) = 1
          /\ args.sn = 0 =>
                /\ libcalls[1].routine = "rfcalc_nonoise"
                /\ "seed" \notin DOMAIN libcalls[1]
          /\ args.sn # 0 =>
                /\ libcalls[1].routine = "rfcalc_noise"
                /\ libcalls[1].seed = args.seed

C1_Witness ==
    /\ pc = "returned"
    /\ args.sn # 0
    /\ args.seed = 61254557
    /\ Len(libcalls) = 1
    /\ libcalls[1].routine = "rfcalc_noise"
    /\ libcalls[1].seed = 61254557

C3_ShapeErrorBeforeSolver ==
    \A i \in DOMAIN libcalls :
        /\ Len(libcalls[i].qa) = libcalls[i].npt
        /\ Len(libcalls[i].qb) = libcalls[i].npt

BadKernel(noise) ==
    /\ noise # None
    /\ \/ noise.kernel \notin Kernels
       \/ noise.kernel = "periodic" /\ "period" \notin DOMAIN noise

C5_TwoTruncationRules ==
    /\ inv_full.tag = "return" =>
          /\ inv_full.pmax \in 0..(Len(s) - 1)
          /\ s[inv_full.pmax + 1] < Threshold
          /\ \A n \in 1..inv_full.pmax : ~(s[n] < Threshold)
          /\ inv_full.retained = [n \in 1..inv_full.pmax |-> s[n]]
    /\ inv_sub.tag = "return" =>
          /\ inv_sub.pmax = Cardinality({n \in 1..Len(s) : s[n] > Threshold})
          /\ inv_sub.pmax \in 1..Len(s)
          /\ s[inv_sub.pmax] > Threshold
          /\ \A n \in (inv_sub.pmax + 1)..Len(s) : ~(s[n] > Threshold)
          /\ inv_sub.retained = [n \in 1..inv_sub.pmax |-> s[n]]

C5_Witness ==
    /\ inv_full.tag = "return"
    /\ inv_sub.tag = "return"
    /\ inv_full.pmax = 2
    /\ inv_sub.pmax = 1
    /\ s[2] = Threshold

\* C6: InvDataCov completes without raising and retains pmax singular values
\* with 1 <= pmax <= ndata, for every ndata >= 1 and every descending
\* sequence of ndata non-negative singular values.
C6_RetainsBetweenOneAndNdata ==
    inv_full # NoResult =>
        /\ inv_full.tag = "return"
        /\ 1 <= inv_full.pmax
        /\ inv_full.pmax <= Len(s)

(***************************************************************************)
(* Property of the misfit (SpecMisfit).                                    *)
(***************************************************************************)
\* C7: the misfit of a waveform against itself is 0, whatever the waveform
\* and the matrix, and evaluating it changes neither waveform nor the matrix.
C7_SelfMisfitZero ==
    /\ [](mref # NoResult /\ RFo = RFp => mref.num = 0 /\ mref.den = 2)
    /\ [][UNCHANGED <<RFo, RFp, Cdinv>>]_vars

C7_Witness ==
    /\ mref # NoResult
    /\ RFo = RFp
    /\ RFo = <<1, 1>>
    /\ Cdinv = <<<<1, -1>>, <<1, 1>>>>
    /\ mref.num = 0

(***************************************************************************)
(* Property of the model conversions (SpecMod).                            *)
(***************************************************************************)
\* C8: for a thickness model and an interface-depth model of the same column
\* (whatever the half-space layer carries in its first column) l2mod and
\* d2mod, called with the same dmax, return the same (px, py).
C8_SameStaircase ==
    l2out # NoResult /\ d2out # NoResult => l2out = d2out

C8_Witness ==
    /\ l2out # NoResult
    /\ d2out # NoResult
    /\ Len(velmodT) = 2
    /\ velmodT[1][1] = 2
    /\ velmodT[2][1] = 1
    /\ velmodD[2][1] = 7
    /\ dmax = 60
    /\ l2out.py = (0 :> 0 @@ 1 :> 2 @@ 2 :> 2 @@ 3 :> 60)
    /\ d2out.py = l2out.py
    /\ d2out.px = l2out.px

(***************************************************************************)
(* Properties of sequences of rfcalc calls (SpecSeq).                      *)
(***************************************************************************)
\* C9: the result of an rfcalc call is determined by that call's arguments:
\* a call with the arguments of an earlier call returns what that call
\* returned.
C9_ResultDeterminedByArguments ==
    \A i \in DOMAIN kept :
        pc = "returned" /\ kept[i].args = args => kept[i].result = result

\* the waveform the solver wrote, read off what a call returned
solver_wave(res) ==
    IF Len(res.value) = 3 THEN res.value[2].by.w ELSE res.value[2]

SameSolverInputs(a, b) ==
    /\ a.model = b.model
    /\ a.mtype = b.mtype
    /\ a.sn = b.sn
    /\ a.seed = b.seed
    /\ a.qmodels = b.qmodels

C11_KernelSymmetricUnitDiagonal ==
    kval # NoResult =>
        /\ kval.ij = kval.ji
        /\ kval.ii = Value(ks1 * ks1, Unit)

C11_Witness ==
    /\ kval # NoResult
    /\ kname = "matern0"
    /\ kx = 0
    /\ kxp = 2
    /\ ks1 = 2
    /\ kval.ij = kval.ji
    /\ kval.ij # kval.ii
    /\ kval.ii.amp = 4

(***************************************************************************)
(* Property of the staircase (SpecStair).                                  *)
(***************************************************************************)
\* the staircase of L layers with interface depths d and velocities v
IsStaircase(out, d, v, dm) ==
    LET L == Len(v)
    IN  /\ DOMAIN out.px = 0..(2 * L - 1)
        /\ DOMAIN out.py = 0..(2 * L - 1)
        /\ \A i \in 0..(L - 1) :
              out.px[2 * i] = v[i + 1] /\ out.px[2 * i + 1] = v[i + 1]
        /\ out.py[0] = 0
        /\ \A i \in 0..(L - 2) :
              out.py[2 * i + 1] = d[i + 1] /\ out.py[2 * i + 2] = d[i + 1]
        /\ out.py[2 * L - 1] = dm

Depths1(model) == [i \in 1..Len(model) |-> sum([j \in 1..i |-> model[j][1]], i)]
Depths2(model) == [i \in 1..Len(model) |-> model[i][1]]
Vs(model) == [i \in 1..Len(model) |-> model[i][2]]

\* C12: for L >= 1 layers l2mod and d2mod return px, py of length 2L with
\* px[2i] = px[2i+1] = v[i], py[0] = 0, py[2i+1] = py[2i+2] = d[i] for
\* i < L-1 and py[2L-1] = dmax, d the running sum of the thicknesses in l2mod
\* and the first column in d2mod; the model is left as it was.
C12_StaircaseShape ==
    /\ [](/\ l2out # NoResult =>
                IsStaircase(l2out, Depths1(velmodT), Vs(velmodT), dmax)
          /\ d2out # NoResult =>
                IsStaircase(d2out, Depths2(velmodD), Vs(velmodD), dmax))
    /\ [][UNCHANGED <<velmodT, velmodD, dmax>>]_vars

C12_Witness ==
    /\ l2out # NoResult
    /\ d2out # NoResult
    /\ velmodT = <<<<1, 3, 2>>, <<2, 4, 2>>, <<2, 3, 2>>>>
    /\ dmax = 60
    /\ l2out.py = (0 :> 0 @@ 1 :> 1 @@ 2 :> 1 @@ 3 :> 3 @@ 4 :> 3 @@ 5 :> 60)
    /\ d2out.py = (0 :> 0 @@ 1 :> 1 @@ 2 :> 1 @@ 3 :> 2 @@ 4 :> 2 @@ 5 :> 60)
    /\ l2out.px = (0 :> 3 @@ 1 :> 3 @@ 2 :> 4 @@ 3 :> 4 @@ 4 :> 3 @@ 5 :> 3)

(***************************************************************************)
(* Property of the attenuation arguments (Spec).                           *)
(***************************************************************************)
\* what the solver is handed for one entry of qmodels over n layers
Resolved(entry, q, n) ==
    IF isscalar(entry)
    THEN Len(q) = n /\ \A i \in 1..n : q[i] = entry.v
    ELSE q = entry.v

\* C13: the two entries of qmodels are resolved independently, once per call:
\* a scalar q reaches the solver as an array of one q per layer, an array
\* reaches it element for element; with qmodels omitted the solver gets 1450
\* and 600 for every layer, in every call of any sequence of calls, the
\* default never being altered.
C13_AttenuationResolved ==
    /\ default_qmodels = <<Scalar(1450), Scalar(600)>>
    /\ AfterSolver =>
          LET n == Len(args.model)
              call == libcalls[1]
          IN  IF args.qmodels = Omitted
              THEN /\ call.qa = [i \in 1..n |-> 1450]
                   /\ call.qb = [i \in 1..n |-> 600]
              ELSE /\ Resolved(args.qmodels[1], call.qa, n)
                   /\ Resolved(args.qmodels[2], call.qb, n)

C13_Witness ==
    /\ AfterSolver
    /\ args.qmodels = <<Scalar(1450), Array(Ramp(50, 2))>>
    /\ Len(args.model) = 2
    /\ libcalls[1].qa = <<1450, 1450>>
    /\ libcalls[1].qb = <<51, 52>>

(***************************************************************************)
(* Comparison of the two truncation rules (SpecCov).                       *)
(***************************************************************************)
BothRules == inv_full # NoResult /\ inv_sub # NoResult
HasBelow == \E n \in 1..Len(s) : s[n] < Threshold
HasAbove == \E n \in 1..Len(s) : s[n] > Threshold
HasEqual == \E n \in 1..Len(s) : s[n] = Threshold
NumAbove == Cardinality({n \in 1..Len(s) : s[n] > Threshold})
NumEqual == Cardinality({n \in 1..Len(s) : s[n] = Threshold})

\* C14 as stated: with a value below the threshold and none equal to it the
\* two rules retain the same number of values; they differ only (a) with no
\* value below, InvDataCov raising and InvDataCovSub retaining all values,
\* (b) with no value above, InvDataCovSub raising, (c) with a value equal to
\* the threshold, which InvDataCov retains and InvDataCovSub does not.
C14_SameCountUnlessListed ==
    BothRules =>
        /\ HasBelow /\ ~HasEqual =>
              /\ inv_full.tag = "return"
              /\ inv_sub.tag = "return"
              /\ inv_full.pmax = inv_sub.pmax
        /\ inv_full # inv_sub => ~HasBelow \/ ~HasAbove \/ HasEqual
        /\ ~HasBelow =>
              /\ inv_full.tag = "raise"
              /\ inv_sub.tag = "return"
              /\ inv_sub.pmax = Len(s)
        /\ ~HasAbove => inv_sub.tag = "raise"
        /\ HasEqual =>
              /\ inv_full.tag = "return"
              /\ inv_full.pmax = NumAbove + NumEqual
              /\ inv_sub.tag = "return" => inv_sub.pmax = NumAbove

\* C14: with a value above the threshold, a value below it and none equal to
\* it, both rules return and retain the same values, those above the
\* threshold.  Their outcomes differ only (a) with no value below, where
\* InvDataCov raises and InvDataCovSub retains the values above the threshold
\* or raises when there is none, (b) with no value above, where InvDataCovSub
\* raises and InvDataCov, if some value is below, retains the values equal
\* to the threshold, (c) with a value equal to the threshold, which
\* InvDataCov retains when it returns and InvDataCovSub never does.
C14_SameCountWhenStraddling ==
    BothRules =>
        /\ HasAbove /\ HasBelow /\ ~HasEqual =>
              /\ inv_full.tag = "return"
              /\ inv_sub.tag = "return"
              /\ inv_full.pmax = NumAbove
              /\ inv_full = inv_sub
        /\ inv_full # inv_sub => ~HasBelow \/ ~HasAbove \/ HasEqual
        /\ ~HasBelow =>
              /\ inv_full.tag = "raise"
              /\ IF HasAbove
                 THEN inv_sub.tag = "return" /\ inv_sub.pmax = NumAbove
                 ELSE inv_sub.tag = "raise"
        /\ ~HasAbove =>
              /\ inv_sub.tag = "raise"
              /\ HasBelow =>
                    inv_full.tag = "return" /\ inv_full.pmax = NumEqual
        /\ HasEqual =>
              /\ inv_full.tag = "return" =>
                    inv_full.pmax = NumAbove + NumEqual
              /\ inv_sub.tag = "return" => inv_sub.pmax = NumAbove

C14_Witness ==
    /\ BothRules
    /\ s = <<3, 3, 1>>
    /\ inv_full.tag = "return"
    /\ inv_full.pmax = 2
    /\ inv_sub = inv_full

====
